---- MODULE Spec2Model ----
(***************************************************************************)
(* Activity store and full-text index of paw-diary                         *)
(* (src-tauri/src/database/activities.rs, database/fts.rs and              *)
(* commands/activities.rs).                                                *)
(*                                                                         *)
(* The state is the content of three tables: activities, activities_fts   *)
(* (the derived index, keyed by rowid = activity id) and pets.  Statements *)
(* executed on the pool autocommit; rebuild_fts_index and repair_fts_index *)
(* run inside one storage transaction, modelled by a working copy of the   *)
(* index that replaces the committed index at commit.  No trigger on the   *)
(* activities table is part of the sources, so the index changes only      *)
(* where the code writes it.                                               *)
(*                                                                         *)
(* Rows carry the columns database/activities.rs reads and writes (title,  *)
(* description, location, ...).  Activity ids are handed out in increasing *)
(* order and never reused, and the index table takes every column one of   *)
(* its writers names (title, description, category, subcategory,           *)
(* location); a column a writer does not name is NULL in its entry.        *)
(*                                                                         *)
(* The specifications share the actions: Spec (routine writes of the      *)
(* store), SpecIndex (the index operations, statement by statement, with   *)
(* storage failures), SpecPage (pagination and search over tables of       *)
(* 0..MaxRows rows), SpecCap (the readers on tables larger than the result *)
(* cap), SpecLoad (reading rows as a database file holds them), SpecCodec  *)
(* (the payload codec of activity_data.rs), SpecWeight (the weight unit    *)
(* table), SpecFts (query sanitizing against the full-text engine),        *)
(* SpecCommand (the commands that address one activity by id), SpecOwner   *)
(* (the commands that also name a pet), SpecReaders (readers beside a      *)
(* rebuild or repair), SpecExport (export of tables around the page        *)
(* limit), SpecImport (import and restore of documents) and SpecFilter     *)
(* (get_activities with a category filter).                                *)
(***************************************************************************)
EXTENDS Integers, Sequences, FiniteSets, TLC

VARIABLES activities, fts, pets, nextId, updates, tx, last

vars == <<activities, fts, pets, nextId, updates, tx, last>>

(***************************************************************************)
(* Bounds                                                                  *)
(***************************************************************************)
\* number of activity ids the store hands out in one behaviour
MaxId == 2
\* number of update_activity calls in one behaviour
MaxUpdates == 1

(***************************************************************************)
(* Values                                                                  *)
(***************************************************************************)
\* SQL NULL / Rust None for a text column or an optional request field
NULL == "<null>"
\* Option<i64>::None for a pet id, a limit or an offset (no caller of the model passes it)
NoInt == 0 - 9

\* weights are carried in thousandths of the unit (5.2 kg = 5200)
NoData == [kind |-> "none", value |-> 0, unit |-> ""]

WeightData(v, u) == [kind |-> "weight", value |-> v, unit |-> u]

\* pets present after setup_test_db-like construction, weight_kg in milli-kg
InitialPets == [p \in {1, 2} |-> [weight_kg |-> 25500]]

\* the create requests the callers of the model send
Requests ==
    << [pet_id |-> 1, category |-> "health", subcategory |-> "s1", title |-> "t1",
        description |-> NULL, location |-> NULL, activity_date |-> 1,
        activity_data |-> NoData],
       [pet_id |-> 2, category |-> "growth", subcategory |-> "s2", title |-> "t2",
        description |-> "d2", location |-> "l2", activity_date |-> 2,
        activity_data |-> WeightData(5200, "kg")],
       [pet_id |-> 3, category |-> "diet", subcategory |-> "s1", title |-> "t1",
        description |-> NULL, location |-> NULL, activity_date |-> 1,
        activity_data |-> NoData] >>

EmptyTable == [i \in {} |-> NoData]

NoTx ==
    [op |-> "none", pc |-> "idle", work |-> EmptyTable, todo |-> {}, removed |-> 0, added |-> 0,
     before |-> EmptyTable]

Idle == tx.op = "none"

(***************************************************************************)
(* Helpers on tables (functions from a set of ids to rows)                 *)
(***************************************************************************)
Ids(t) == DOMAIN t

Put(t, id, row) == [i \in Ids(t) \cup {id} |-> IF i = id THEN row ELSE t[i]]

Remove(t, S) == [i \in Ids(t) \ S |-> t[i]]

Min(S) == CHOOSE x \in S : \A y \in S : x <= y

(***************************************************************************)
(* Text: queries and column texts are strings, read character by character *)
(***************************************************************************)
Char(s, k) == SubSeq(s, k, k)

LowerCase == "abcdefghijklmnopqrstuvwxyz"

UpperCase == "ABCDEFGHIJKLMNOPQRSTUVWXYZ"

Digits == "0123456789"

Contains(s, c) == \E k \in 1..Len(s) : Char(s, k) = c

\* char::is_alphanumeric and char::is_whitespace on the characters of the model
IsAlphanumeric(c) == Contains(LowerCase, c) \/ Contains(UpperCase, c) \/ Contains(Digits, c)

IsWhitespace(c) == c \in {" ", "\t", "\n", "\r"}

ToLower(c) ==
    IF Contains(UpperCase, c)
    THEN Char(LowerCase, CHOOSE k \in 1..Len(UpperCase) : Char(UpperCase, k) = c)
    ELSE c

\* str::to_lowercase
RECURSIVE ToLowerCase(_)
ToLowerCase(s) == IF s = "" THEN "" ELSE ToLower(Char(s, 1)) \o ToLowerCase(SubSeq(s, 2, Len(s)))

\* str::trim
Trim(s) ==
    LET kept == {k \in 1..Len(s) : ~IsWhitespace(Char(s, k))}
    IN IF kept = {} THEN ""
       ELSE SubSeq(s, CHOOSE k \in kept : \A j \in kept : k <= j,
                      CHOOSE k \in kept : \A j \in kept : k >= j)

(***************************************************************************)
(* convert_weight_to_kg, in thousandths (integer division)                 *)
(***************************************************************************)
\* the units matched as written
convert_weight_to_kg_exact(value, unit) ==
    CASE unit = "kg" -> value
      [] unit = "g" -> value \div 1000
      [] unit \in {"lbs", "lb"} -> (value * 1000) \div 2205
      [] unit = "oz" -> (value * 1000) \div 35274
      [] OTHER -> value

\* match unit.to_lowercase().as_str()
convert_weight_to_kg(value, unit) ==
    LET u == ToLowerCase(unit) IN
    CASE u = "kg" -> value
      [] u = "g" -> value \div 1000
      [] u \in {"lbs", "lb"} -> (value * 1000) \div 2205
      [] u = "oz" -> (value * 1000) \div 35274
      [] OTHER -> value

extract_weight_kg(data) ==
    IF data.kind = "weight" THEN convert_weight_to_kg(data.value, data.unit) ELSE NoInt

(***************************************************************************)
(* JSON documents (serde_json::Value): tagged values; an object carries a  *)
(* function from its keys to values.  Numbers are in thousandths.          *)
(***************************************************************************)
JNull == [j |-> "null"]

JNum(n) == [j |-> "number", n |-> n]

JStr(s) == [j |-> "string", s |-> s]

JObj(f) == [j |-> "object", fields |-> f]

\* the result of Value::get for a key the object does not have: None
JMissing == [j |-> "missing"]

NoFields == [k \in {} |-> JNull]

\* obj.get(key), None when the value is no object
Get(v, key) == IF v.j = "object" /\ key \in DOMAIN v.fields THEN v.fields[key] ELSE JMissing

\* .and_then(|v| v.as_str()).map(String::from)
OptStr(v) == IF v.j = "string" THEN v.s ELSE NULL

\* value as f32: the nearest value of the coarser f32 grid (here the even
\* thousandths); json!(f32) then writes that value exactly
AsF32(n) == (n \div 2) * 2

(***************************************************************************)
(* ActivityData: one record per variant, None as NULL / NoInt              *)
(***************************************************************************)
Weight(value, unit, measurement_type, notes) ==
    [kind |-> "weight", value |-> value, unit |-> unit,
     measurement_type |-> measurement_type, notes |-> notes]

Height(value, unit, measurement_type, notes) ==
    [kind |-> "height", value |-> value, unit |-> unit,
     measurement_type |-> measurement_type, notes |-> notes]

Feeding(portion_type, amount, unit, brand, notes) ==
    [kind |-> "feeding", portion_type |-> portion_type, amount |-> amount, unit |-> unit,
     brand |-> brand, notes |-> notes]

WaterIntake(amount, unit, source, notes) ==
    [kind |-> "water_intake", amount |-> amount, unit |-> unit, source |-> source,
     notes |-> notes]

Vaccination(vaccine_name, vet_name, next_due_date, batch_number, notes) ==
    [kind |-> "vaccination", vaccine_name |-> vaccine_name, vet_name |-> vet_name,
     next_due_date |-> next_due_date, batch_number |-> batch_number, notes |-> notes]

CheckUp(diagnosis, temperature, heart_rate, notes) ==
    [kind |-> "checkup", diagnosis |-> diagnosis, temperature |-> temperature,
     heart_rate |-> heart_rate, notes |-> notes]

Custom(value) == [kind |-> "custom", doc |-> value]

(***************************************************************************)
(* serde_json::from_value::<ActivityData>: #[serde(tag = "type",           *)
(* content = "data")]; a field of type Option may be absent or null        *)
(***************************************************************************)
Opt(v, tag) == v.j \in {"missing", "null", tag}

OptNum(v) == IF v.j = "number" THEN AsF32(v.n) ELSE NoInt

\* whether the data of a typed document deserializes as the variant it names
TypedOk(variant, data) ==
    CASE variant \in {"Weight", "Height"} ->
            /\ Get(data, "value").j = "number" /\ Get(data, "unit").j = "string"
            /\ Get(data, "measurement_type").j = "string" /\ Opt(Get(data, "notes"), "string")
      [] variant = "Feeding" ->
            /\ Get(data, "portion_type").j = "string" /\ Get(data, "amount").j = "number"
            /\ Get(data, "unit").j = "string" /\ Opt(Get(data, "brand"), "string")
            /\ Opt(Get(data, "notes"), "string")
      [] variant = "WaterIntake" ->
            /\ Get(data, "amount").j = "number" /\ Get(data, "unit").j = "string"
            /\ Opt(Get(data, "source"), "string") /\ Opt(Get(data, "notes"), "string")
      [] variant = "Vaccination" ->
            /\ Get(data, "vaccine_name").j = "string" /\ Opt(Get(data, "vet_name"), "string")
            /\ Opt(Get(data, "next_due_date"), "string")
            /\ Opt(Get(data, "batch_number"), "string") /\ Opt(Get(data, "notes"), "string")
      [] variant = "CheckUp" ->
            /\ data.j = "object" /\ Opt(Get(data, "diagnosis"), "string")
            /\ Opt(Get(data, "temperature"), "number")
            /\ Opt(Get(data, "heart_rate"), "number") /\ Opt(Get(data, "notes"), "string")
      [] variant = "Custom" -> data.j # "missing"
      [] OTHER -> FALSE

IsTyped(value) ==
    /\ Get(value, "type").j = "string"
    /\ TypedOk(Get(value, "type").s, Get(value, "data"))

Typed(value) ==
    LET variant == Get(value, "type").s
        data == Get(value, "data")
        S(key) == OptStr(Get(data, key))
        N(key) == OptNum(Get(data, key))
    IN CASE variant = "Weight" -> Weight(N("value"), S("unit"), S("measurement_type"), S("notes"))
         [] variant = "Height" -> Height(N("value"), S("unit"), S("measurement_type"), S("notes"))
         [] variant = "Feeding" ->
               Feeding(S("portion_type"), N("amount"), S("unit"), S("brand"), S("notes"))
         [] variant = "WaterIntake" -> WaterIntake(N("amount"), S("unit"), S("source"), S("notes"))
         [] variant = "Vaccination" ->
               Vaccination(S("vaccine_name"), S("vet_name"), S("next_due_date"),
                           S("batch_number"), S("notes"))
         [] variant = "CheckUp" ->
               CheckUp(S("diagnosis"), N("temperature"), N("heart_rate"), S("notes"))
         [] OTHER -> Custom(data)

(***************************************************************************)
(* ActivityData::from_legacy_json                                          *)
(***************************************************************************)
\* a block under `key` that is an object with a numeric value and a text unit
IsMeasurement(value, key) ==
    /\ Get(value, key).j = "object"
    /\ Get(Get(value, key), "value").j = "number"
    /\ Get(Get(value, key), "unit").j = "string"

\* Pattern 3: a portion block with amount, unit and portionType
IsFeeding(value) ==
    /\ Get(value, "portion").j = "object"
    /\ Get(Get(value, "portion"), "amount").j = "number"
    /\ Get(Get(value, "portion"), "unit").j = "string"
    /\ Get(Get(value, "portion"), "portionType").j = "string"

\* Pattern 4: a portion block whose portionType names a water source
IsWaterIntake(value) ==
    /\ Get(value, "portion").j = "object"
    /\ Get(Get(value, "portion"), "portionType").j = "string"
    /\ Get(Get(value, "portion"), "portionType").s \in {"bowl", "bottle", "fountain"}
    /\ Get(Get(value, "portion"), "amount").j = "number"
    /\ Get(Get(value, "portion"), "unit").j = "string"

\* a fallback that keeps no document
Fallback_null(value) == Custom(JNull)

\* Ultimate fallback: preserve as custom data
Fallback(value) == Custom(value)

from_legacy_json(value) ==
    LET notes == OptStr(Get(value, "notes"))
        Block(key) == Get(value, key)
        MeasurementType(key) ==
            IF Get(Block(key), "measurementType").j = "string"
            THEN Get(Block(key), "measurementType").s ELSE key
    IN IF IsTyped(value) THEN Typed(value)
       ELSE IF IsMeasurement(value, "weight")
       THEN Weight(AsF32(Get(Block("weight"), "value").n), Get(Block("weight"), "unit").s,
                   MeasurementType("weight"), notes)
       ELSE IF IsMeasurement(value, "height")
       THEN Height(AsF32(Get(Block("height"), "value").n), Get(Block("height"), "unit").s,
                   MeasurementType("height"), notes)
       ELSE IF IsFeeding(value)
       THEN Feeding(Get(Block("portion"), "portionType").s,
                    AsF32(Get(Block("portion"), "amount").n), Get(Block("portion"), "unit").s,
                    OptStr(Get(Block("portion"), "brand")), notes)
       ELSE IF IsWaterIntake(value)
       THEN WaterIntake(AsF32(Get(Block("portion"), "amount").n),
                        Get(Block("portion"), "unit").s,
                        Get(Block("portion"), "portionType").s, notes)
       ELSE Fallback(value)

(***************************************************************************)
(* ActivityData::to_frontend_blocks                                        *)
(***************************************************************************)
\* blocks[key] = json!(text), only if the Option holds a value
StrField(key, v) == IF v = NULL THEN NoFields ELSE key :> JStr(v)

NumField(key, v) == IF v = NoInt THEN NoFields ELSE key :> JNum(v)

to_frontend_blocks(data) ==
    CASE data.kind \in {"weight", "height"} ->
            JObj((data.kind :> JObj([value |-> JNum(data.value), unit |-> JStr(data.unit),
                                     measurementType |-> JStr(data.measurement_type)]))
                 @@ StrField("notes", data.notes))
      [] data.kind = "feeding" ->
            JObj(("portion" :> JObj([amount |-> JNum(data.amount), unit |-> JStr(data.unit),
                                     portionType |-> JStr(data.portion_type)]
                                    @@ StrField("brand", data.brand)))
                 @@ StrField("notes", data.notes))
      [] data.kind = "water_intake" ->
            JObj(("portion" :> JObj([amount |-> JNum(data.amount), unit |-> JStr(data.unit)]
                                    @@ StrField("portionType", data.source)))
                 @@ StrField("notes", data.notes))
      [] data.kind = "vaccination" ->
            JObj(("vaccination" :> JObj([vaccine_name |-> JStr(data.vaccine_name)]
                                        @@ StrField("vet_name", data.vet_name)
                                        @@ StrField("next_due_date", data.next_due_date)
                                        @@ StrField("batch_number", data.batch_number)))
                 @@ StrField("notes", data.notes))
      [] data.kind = "checkup" ->
            JObj(("checkup" :> JObj(StrField("diagnosis", data.diagnosis)
                                    @@ NumField("temperature", data.temperature)
                                    @@ NumField("heart_rate", data.heart_rate)))
                 @@ StrField("notes", data.notes))
      [] OTHER -> data.doc

\* should_update_pet_profile: matches!(self, Weight { .. } | Height { .. })
should_update_pet_profile(data) == data.kind \in {"weight", "height"}

(***************************************************************************)
(* Index entries as the different writers derive them                      *)
(***************************************************************************)
\* create_activity: columns title, description, category, subcategory
CreateFtsEntry(row) ==
    [title |-> row.title, description |-> row.description, category |-> row.category,
     subcategory |-> row.subcategory, location |-> NULL]

\* rebuild_fts_index / repair_fts_index: columns title, description, subcategory, location
RebuildFtsEntry(row) ==
    [title |-> row.title, description |-> row.description, category |-> NULL,
     subcategory |-> row.subcategory, location |-> row.location]

(***************************************************************************)
(* Init                                                                    *)
(***************************************************************************)
Init ==
    /\ activities = EmptyTable
    /\ fts = EmptyTable
    /\ pets = InitialPets
    /\ nextId = 1
    /\ updates = 0
    /\ tx = NoTx
    /\ last = [op |-> "init", ok |-> TRUE]

(***************************************************************************)
(* create_activity (command + store)                                       *)
(***************************************************************************)
\* The command checks that the pet exists, then the store inserts the row and,
\* best effort, the index entry.  fts_ok: whether that index insert succeeded
\* (`let _ =` drops its error).  Neither layer writes the pets table.
create_activity(r, fts_ok) ==
    LET req == Requests[r] IN
    /\ Idle
    /\ IF req.pet_id \notin DOMAIN pets
       THEN /\ last' = [op |-> "create_activity", ok |-> FALSE, err |-> "Validation",
                        req |-> r, id |-> 0]
            /\ UNCHANGED <<activities, fts, pets, nextId, updates, tx>>
       ELSE /\ nextId <= MaxId
            /\ activities' = Put(activities, nextId, req)
            /\ fts' = IF fts_ok /\ nextId \notin Ids(fts)
                      THEN Put(fts, nextId, CreateFtsEntry(req))
                      ELSE fts
            /\ nextId' = nextId + 1
            /\ last' = [op |-> "create_activity", ok |-> TRUE, err |-> "",
                        req |-> r, id |-> nextId]
            /\ UNCHANGED <<pets, updates, tx>>

(***************************************************************************)
(* row_to_activity and get_activity_by_id                                  *)
(***************************************************************************)
\* the category texts ActivityCategory::from_str accepts
Categories == {"health", "growth", "diet", "lifestyle", "expense"}

\* a stored activity_data text that is not a JSON document
BadData == [kind |-> "unparseable", value |-> 0, unit |-> ""]

\* category_str.parse()? and serde_json::from_str(&s) ... transpose()?
row_to_activity(row) ==
    IF row.category \notin Categories
    THEN [ok |-> FALSE, err |-> "Invalid activity category", row |-> NoData]
    ELSE IF row.activity_data.kind = "unparseable"
    THEN [ok |-> FALSE, err |-> "Json", row |-> NoData]
    ELSE [ok |-> TRUE, err |-> "", row |-> row]

\* fetch_one fails (RowNotFound) when the row is gone
get_activity_by_id(acts, id) ==
    IF id \in Ids(acts)
    THEN row_to_activity(acts[id])
    ELSE [ok |-> FALSE, err |-> "RowNotFound", row |-> NoData]

\* the conversion of the rows of a page: the first failure is returned
PageLoads(acts, page) == \A k \in 1..Len(page) : row_to_activity(acts[page[k]]).ok

(***************************************************************************)
(* update_activity                                                         *)
(***************************************************************************)
\* the update requests the callers of the model send (NULL = field not supplied)
UpdateRequests ==
    << [title |-> "u", subcategory |-> "u", description |-> "u", category |-> NULL],
       [title |-> "u", subcategory |-> NULL, description |-> NULL, category |-> NULL],
       [title |-> NULL, subcategory |-> NULL, description |-> "u", category |-> NULL],
       [title |-> "u", subcategory |-> NULL, description |-> "1", category |-> NULL],
       [title |-> NULL, subcategory |-> "1", description |-> NULL, category |-> NULL],
       [title |-> NULL, subcategory |-> NULL, description |-> NULL, category |-> "diet"] >>

\* Option<String>::unwrap_or_default()
UnwrapOrDefault(v) == IF v = NULL THEN "" ELSE v

\* the "<column> = ?" fragments pushed for the supplied fields, in code order
UpdateColumns(req) ==
    (IF req.title # NULL THEN <<"title">> ELSE <<>>)
    \o (IF req.subcategory # NULL THEN <<"subcategory">> ELSE <<>>)
    \o (IF req.description # NULL THEN <<"description">> ELSE <<>>)

\* the text values bound to the statement, always all three, in this order
UpdateBinds(req) ==
    <<UnwrapOrDefault(req.title), UnwrapOrDefault(req.subcategory),
      UnwrapOrDefault(req.description)>>

\* a TEXT value compared with the INTEGER PRIMARY KEY is converted when it is
\* the decimal text of an integer; any other text matches no row
TextAsId(t) ==
    CASE t = "1" -> 1
      [] t = "2" -> 2
      [] t = "3" -> 3
      [] t = "4" -> 4
      [] OTHER -> 0

\* parameters are bound by position: parameter k takes bind k, the WHERE
\* parameter is number Len(cols) + 1 and the binds beyond it are dropped
UpdateWhereId(req, id) ==
    LET n == Len(UpdateColumns(req)) IN
    IF n = 3 THEN id ELSE TextAsId(UpdateBinds(req)[n + 1])

UpdateRow(row, req) ==
    LET cols == UpdateColumns(req)
        binds == UpdateBinds(req)
        Val(c, old) == IF \E k \in 1..Len(cols) : cols[k] = c
                       THEN binds[CHOOSE k \in 1..Len(cols) : cols[k] = c]
                       ELSE old
    IN [row EXCEPT !.title = Val("title", row.title),
                   !.subcategory = Val("subcategory", row.subcategory),
                   !.description = Val("description", row.description)]

UpdateTable(acts, id, req) ==
    IF Len(UpdateColumns(req)) = 0
    THEN acts
    ELSE [i \in Ids(acts) |-> IF i = UpdateWhereId(req, id) THEN UpdateRow(acts[i], req)
                                                             ELSE acts[i]]

update_activity(id, u) ==
    LET req == UpdateRequests[u] IN
    /\ Idle
    /\ updates < MaxUpdates
    /\ updates' = updates + 1
    /\ activities' = UpdateTable(activities, id, req)
    /\ last' = [op |-> "update_activity", ok |-> get_activity_by_id(activities', id).ok,
                err |-> get_activity_by_id(activities', id).err,
                id |-> id, req |-> u]
    /\ UNCHANGED <<fts, pets, nextId, tx>>

(***************************************************************************)
(* delete_activity                                                         *)
(***************************************************************************)
\* DELETE FROM activities WHERE id <= ?
delete_activity_upto(id) ==
    /\ Idle
    /\ activities' = Remove(activities, 1..id)
    /\ last' = [op |-> "delete_activity", ok |-> TRUE, err |-> "", id |-> id]
    /\ UNCHANGED <<fts, pets, nextId, updates, tx>>

\* DELETE FROM activities WHERE id = ?
delete_activity(id) ==
    /\ Idle
    /\ activities' = Remove(activities, {id})
    /\ last' = [op |-> "delete_activity", ok |-> TRUE, err |-> "", id |-> id]
    /\ UNCHANGED <<fts, pets, nextId, updates, tx>>

(***************************************************************************)
(* get_activities                                                          *)
(***************************************************************************)
DefaultLimit == 50

\* the ids of S between lo and hi, in increasing order
RECURSIVE AscendingIds(_, _, _)
AscendingIds(S, lo, hi) ==
    IF lo > hi THEN <<>>
    ELSE IF lo = hi THEN (IF lo \in S THEN <<lo>> ELSE <<>>)
    ELSE AscendingIds(S, lo, (lo + hi) \div 2) \o AscendingIds(S, ((lo + hi) \div 2) + 1, hi)

\* an upper bound of the ids of a table: its ids are 1..n, or at most MaxId,
\* or below the next id the store hands out
IdRange(t) ==
    LET n == Cardinality(Ids(t)) + MaxId IN IF nextId > n THEN nextId ELSE n

\* ids of S ordered by activity_date DESC (rows of equal date in rowid order):
\* the rows of the latest date in increasing id order, then the other rows
RECURSIVE OrderByDateDesc(_, _)
OrderByDateDesc(acts, S) ==
    IF S = {} THEN <<>>
    ELSE LET dates == {acts[i].activity_date : i \in S}
             latest == CHOOSE d \in dates : \A e \in dates : d >= e
             first == {i \in S : acts[i].activity_date = latest}
         IN AscendingIds(first, 1, IdRange(acts)) \o OrderByDateDesc(acts, S \ first)

\* LIMIT l OFFSET o of SQLite: a negative limit is no limit, a negative offset is 0
LimitOffset(rows, l, o) ==
    LET off == IF o < 0 THEN 0 ELSE o
        rest == IF off >= Len(rows) THEN <<>> ELSE SubSeq(rows, off + 1, Len(rows))
    IN IF l < 0 \/ l >= Len(rest) THEN rest ELSE SubSeq(rest, 1, l)

\* rows of the final query: only the pet filter is applied
MatchingIds(acts, pet_id) ==
    {i \in Ids(acts) : pet_id = NoInt \/ acts[i].pet_id = pet_id}

HasMore(offset, returned, total_count) ==
    IF offset # NoInt THEN (offset + returned) < total_count ELSE FALSE

GetActivities(acts, pet_id, limit, offset) ==
    LET matching == MatchingIds(acts, pet_id)
        limit_val == IF limit = NoInt THEN DefaultLimit ELSE limit
        offset_val == IF offset = NoInt THEN 0 ELSE offset
        page == LimitOffset(OrderByDateDesc(acts, matching), limit_val, offset_val)
        \* COUNT(*) OVER() read from the first returned row, 0 when no row is returned
        total_count == IF Len(page) = 0 THEN 0 ELSE Cardinality(matching)
    IN [activities |-> page, total_count |-> total_count,
        has_more |-> HasMore(offset, Len(page), total_count)]

\* Option<ActivityFilters>: None, or filters with a list of categories
NoFilters == [some |-> FALSE, categories |-> {}]

\* the filters are written into base_query, which is not executed; the rows
\* come from final_query
get_activities(pet_id, filters, limit, offset) ==
    /\ last' = IF PageLoads(activities,
                            GetActivities(activities, pet_id, limit, offset).activities)
               THEN [op |-> "get_activities", ok |-> TRUE, err |-> "",
                     pet_id |-> pet_id, filters |-> filters, limit |-> limit,
                     offset |-> offset,
                     result |-> GetActivities(activities, pet_id, limit, offset)]
               ELSE [op |-> "get_activities", ok |-> FALSE, err |-> "row_to_activity",
                     pet_id |-> pet_id, filters |-> filters, limit |-> limit,
                     offset |-> offset]
    /\ UNCHANGED <<activities, fts, pets, nextId, updates, tx>>

(***************************************************************************)
(* search_activities (LIKE fallback)                                       *)
(***************************************************************************)
\* the search texts the callers of the model send
SearchQueries == {"", "t", "t1", "d2", "s", "zz"}

\* text LIKE '%query%': a NULL column matches nothing (the texts of the model
\* are lower case, so the case folding of LIKE plays no part)
Like(text, query) ==
    /\ text # NULL
    /\ \E k \in 1..(Len(text) - Len(query) + 1) : SubSeq(text, k, k + Len(query) - 1) = query

\* WHERE (title LIKE ? OR description LIKE ? OR subcategory LIKE ?) [AND pet_id = n]
SearchMatchingIds(acts, query, pet_id) ==
    {i \in Ids(acts) :
        /\ Like(acts[i].title, query) \/ Like(acts[i].description, query)
              \/ Like(acts[i].subcategory, query)
        /\ pet_id = NoInt \/ acts[i].pet_id = pet_id}

SearchActivities(acts, query, pet_id, limit, offset) ==
    LET matching == SearchMatchingIds(acts, query, pet_id)
        limit_val == IF limit = NoInt THEN DefaultLimit ELSE limit
        offset_val == IF offset = NoInt THEN 0 ELSE offset
        page == LimitOffset(OrderByDateDesc(acts, matching), limit_val, offset_val)
        total_count == IF Len(page) = 0 THEN 0 ELSE Cardinality(matching)
    IN [activities |-> page, total_count |-> total_count,
        has_more |-> HasMore(offset, Len(page), total_count)]

search_activities(query, pet_id, limit, offset) ==
    /\ last' = IF PageLoads(activities,
                            SearchActivities(activities, query, pet_id, limit, offset).activities)
               THEN [op |-> "search_activities", ok |-> TRUE, err |-> "",
                     pet_id |-> pet_id, limit |-> limit, offset |-> offset, query |-> query,
                     result |-> SearchActivities(activities, query, pet_id, limit, offset)]
               ELSE [op |-> "search_activities", ok |-> FALSE, err |-> "row_to_activity",
                     pet_id |-> pet_id, limit |-> limit, offset |-> offset, query |-> query]
    /\ UNCHANGED <<activities, fts, pets, nextId, updates, tx>>

(***************************************************************************)
(* sanitize_fts_query                                                      *)
(***************************************************************************)
\* query.chars().filter(|c| c.is_alphanumeric() || c.is_whitespace() || "-_*\"".contains(*c))
RECURSIVE FilterChars(_, _)
FilterChars(s, k) ==
    IF k > Len(s) THEN ""
    ELSE (IF IsAlphanumeric(Char(s, k)) \/ IsWhitespace(Char(s, k))
             \/ Char(s, k) \in {"-", "_", "*", "\""}
          THEN Char(s, k) ELSE "") \o FilterChars(s, k + 1)

sanitize_fts_query(query) ==
    LET cleaned == FilterChars(query, 1)
    IN IF Contains(cleaned, " ") /\ ~Contains(cleaned, "\"")
       THEN "\"" \o Trim(cleaned) \o "\""
       ELSE Trim(cleaned)

(***************************************************************************)
(* The full-text engine (FTS5) on the text bound to MATCH: its lexer, the  *)
(* part of its grammar that the characters sanitize_fts_query lets through *)
(* can spell (strings, barewords, *, -, AND, OR, NOT), and its matching of *)
(* an index entry.                                                         *)
(***************************************************************************)
\* characters of a bareword
IsBareword(c) == IsAlphanumeric(c) \/ c = "_"

\* position of the quote that closes the string opened before position k, 0
\* if the string is not terminated; a doubled quote is part of the string
RECURSIVE Fts5StringEnd(_, _)
Fts5StringEnd(z, k) ==
    IF k > Len(z) THEN 0
    ELSE IF Char(z, k) # "\"" THEN Fts5StringEnd(z, k + 1)
    ELSE IF k < Len(z) /\ Char(z, k + 1) = "\"" THEN Fts5StringEnd(z, k + 2)
    ELSE k

\* position after the bareword that starts at k
RECURSIVE Fts5BarewordEnd(_, _)
Fts5BarewordEnd(z, k) ==
    IF k <= Len(z) /\ IsBareword(Char(z, k)) THEN Fts5BarewordEnd(z, k + 1) ELSE k

Fts5Token(t, s) == [t |-> t, s |-> s]

\* the tokens of z from position k on; an ERROR token ends the sequence
RECURSIVE Fts5Lex(_, _)
Fts5Lex(z, k) ==
    IF k > Len(z) THEN <<>>
    ELSE LET c == Char(z, k) IN
         IF IsWhitespace(c) THEN Fts5Lex(z, k + 1)
         ELSE IF c = "-" THEN <<Fts5Token("MINUS", c)>> \o Fts5Lex(z, k + 1)
         ELSE IF c = "*" THEN <<Fts5Token("STAR", c)>> \o Fts5Lex(z, k + 1)
         ELSE IF c = "\""
              THEN LET end == Fts5StringEnd(z, k + 1) IN
                   IF end = 0 THEN <<Fts5Token("ERROR", "unterminated string")>>
                   ELSE <<Fts5Token("STRING", SubSeq(z, k + 1, end - 1))>>
                        \o Fts5Lex(z, end + 1)
         ELSE IF IsBareword(c)
              THEN LET end == Fts5BarewordEnd(z, k)
                       word == SubSeq(z, k, end - 1)
                   IN <<Fts5Token(IF word \in {"AND", "OR", "NOT"} THEN word ELSE "STRING",
                                  word)>> \o Fts5Lex(z, end)
         ELSE <<Fts5Token("ERROR", "syntax error")>>

\* the terms of a text: maximal runs of letters and digits, folded to lower case
RECURSIVE Fts5Terms(_, _, _)
Fts5Terms(s, k, run) ==
    IF k > Len(s) THEN (IF run = "" THEN <<>> ELSE <<run>>)
    ELSE IF IsAlphanumeric(Char(s, k)) THEN Fts5Terms(s, k + 1, run \o ToLower(Char(s, k)))
    ELSE (IF run = "" THEN <<>> ELSE <<run>>) \o Fts5Terms(s, k + 1, "")

\* a text whose first character is * is a request for an internal value of
\* the engine, of which "reads" and "id" exist
Fts5Special(z) ==
    LET rest == SubSeq(z, 2, Len(z))
        from == CHOOSE k \in 1..(Len(rest) + 1) :
                    /\ k > Len(rest) \/ Char(rest, k) # " "
                    /\ \A j \in 1..(k - 1) : Char(rest, j) = " "
        to == CHOOSE k \in from..(Len(rest) + 1) :
                  /\ k > Len(rest) \/ Char(rest, k) = " "
                  /\ \A j \in from..(k - 1) : Char(rest, j) # " "
    IN SubSeq(rest, from, to - 1)

\* expr ::= exprlist | expr AND expr | expr OR expr | expr NOT expr,
\* exprlist ::= phrase | exprlist phrase, phrase ::= STRING | STRING STAR
Fts5Accepts(z) ==
    LET toks == Fts5Lex(z, 1)
        n == Len(toks)
        Operator(k) == toks[k].t \in {"AND", "OR", "NOT"}
    IN IF Len(z) > 0 /\ Char(z, 1) = "*"
       THEN Fts5Terms(Fts5Special(z), 1, "") \in {<<"reads">>, <<"id">>}
            /\ Len(Fts5Special(z)) \in {2, 5}
       ELSE
       /\ n > 0
       /\ \A k \in 1..n : toks[k].t \notin {"ERROR", "MINUS"}
       /\ ~Operator(1) /\ ~Operator(n)
       /\ \A k \in 2..n : Operator(k) => ~Operator(k - 1)
       /\ \A k \in 1..n : toks[k].t = "STAR" => (k > 1 /\ toks[k - 1].t = "STRING")

FtsColumns == {"title", "description", "category", "subcategory", "location"}

\* a phrase matches an entry when its terms are consecutive terms of one
\* column, the last one as a prefix if the phrase is followed by *
Fts5PhraseMatches(entry, terms, star) ==
    /\ terms # <<>>
    /\ \E col \in FtsColumns :
          /\ entry[col] # NULL
          /\ LET doc == Fts5Terms(entry[col], 1, "") IN
             \E k \in 1..(Len(doc) - Len(terms) + 1) :
                \A j \in 1..Len(terms) :
                    IF star /\ j = Len(terms)
                    THEN /\ Len(terms[j]) <= Len(doc[k + j - 1])
                         /\ SubSeq(doc[k + j - 1], 1, Len(terms[j])) = terms[j]
                    ELSE doc[k + j - 1] = terms[j]

\* the token sequences between the tokens of kind op
RECURSIVE Fts5Split(_, _)
Fts5Split(toks, op) ==
    IF \A k \in 1..Len(toks) : toks[k].t # op THEN <<toks>>
    ELSE LET at == CHOOSE k \in 1..Len(toks) :
                       toks[k].t = op /\ \A j \in 1..(k - 1) : toks[j].t # op
         IN <<SubSeq(toks, 1, at - 1)>> \o Fts5Split(SubSeq(toks, at + 1, Len(toks)), op)

\* phrases side by side are an implicit AND that binds tighter than NOT, AND, OR
Fts5ListMatches(entry, toks) ==
    \A k \in 1..Len(toks) :
        toks[k].t = "STRING"
            => Fts5PhraseMatches(entry, Fts5Terms(toks[k].s, 1, ""),
                                 k < Len(toks) /\ toks[k + 1].t = "STAR")

Fts5NotMatches(entry, toks) ==
    LET parts == Fts5Split(toks, "NOT") IN
    /\ Fts5ListMatches(entry, parts[1])
    /\ \A k \in 2..Len(parts) : ~Fts5ListMatches(entry, parts[k])

Fts5AndMatches(entry, toks) ==
    LET parts == Fts5Split(toks, "AND") IN
    \A k \in 1..Len(parts) : Fts5NotMatches(entry, parts[k])

\* activities_fts MATCH z, for a text z the engine accepts; toks are its tokens
Fts5Matches(entry, toks) ==
    LET parts == Fts5Split(toks, "OR") IN
    \E k \in 1..Len(parts) : Fts5AndMatches(entry, parts[k])

(***************************************************************************)
(* fts_search_activities (command + store)                                 *)
(***************************************************************************)
\* the cap of fts_search_activities
LimitCap == 1000

\* limit.unwrap_or(50).min(1000)
FtsLimit(limit) ==
    LET l == IF limit = NoInt THEN DefaultLimit ELSE limit
    IN IF l < LimitCap THEN l ELSE LimitCap

\* FROM activities_fts fts JOIN activities a ON a.id = fts.rowid WHERE
\* activities_fts MATCH ? ORDER BY fts.rank LIMIT ?  (rows of equal rank come
\* in rowid order; the texts of the model rank equal)
FtsSearch(acts, index, sanitized, limit) ==
    LET toks == Fts5Lex(sanitized, 1)
        hits == {i \in Ids(index) \cap Ids(acts) : Fts5Matches(index[i], toks)}
    IN LimitOffset(AscendingIds(hits, 1, IdRange(index)), FtsLimit(limit), 0)

fts_search_activities(query, limit) ==
    /\ last' = IF Trim(query) = ""
               THEN [op |-> "fts_search_activities", ok |-> FALSE, err |-> "Validation",
                     query |-> query, limit |-> limit]
               ELSE IF ~Fts5Accepts(sanitize_fts_query(query))
               THEN [op |-> "fts_search_activities", ok |-> FALSE, err |-> "InvalidData",
                     query |-> query, limit |-> limit]
               ELSE IF ~PageLoads(activities, FtsSearch(activities, fts,
                                                        sanitize_fts_query(query), limit))
               THEN [op |-> "fts_search_activities", ok |-> FALSE, err |-> "get_activity_by_id",
                     query |-> query, limit |-> limit]
               ELSE [op |-> "fts_search_activities", ok |-> TRUE, err |-> "",
                     query |-> query, limit |-> limit,
                     result |-> [activities |-> FtsSearch(activities, fts,
                                                          sanitize_fts_query(query), limit)]]
    /\ UNCHANGED <<activities, fts, pets, nextId, updates, tx>>

(***************************************************************************)
(* get_activity (command)                                                  *)
(***************************************************************************)
\* the id check of the command, then get_activity_by_id(activity_id).await?
get_activity(id) ==
    /\ last' = IF id <= 0
               THEN [op |-> "get_activity", ok |-> FALSE, err |-> "Validation", id |-> id]
               ELSE [op |-> "get_activity", ok |-> get_activity_by_id(activities, id).ok,
                     err |-> get_activity_by_id(activities, id).err, id |-> id]
    /\ UNCHANGED <<activities, fts, pets, nextId, updates, tx>>

(***************************************************************************)
(* update_activity and delete_activity (commands)                          *)
(***************************************************************************)
\* the id check, then get_activity_by_id(activity_id).await? as the check
\* that the activity exists, then the store's update_activity; the error of
\* the failed lookup is returned with the text the store gave it
commands_update_activity(id, u) ==
    /\ Idle
    /\ IF id <= 0
       THEN /\ last' = [op |-> "update_activity", ok |-> FALSE, err |-> "Validation",
                        id |-> id, req |-> u]
            /\ UNCHANGED <<activities, fts, pets, nextId, updates, tx>>
       ELSE IF ~get_activity_by_id(activities, id).ok
       THEN /\ last' = [op |-> "update_activity", ok |-> FALSE,
                        err |-> get_activity_by_id(activities, id).err,
                        id |-> id, req |-> u]
            /\ UNCHANGED <<activities, fts, pets, nextId, updates, tx>>
       ELSE update_activity(id, u)

\* the id check, then the same lookup, then the store's delete_activity
commands_delete_activity(id) ==
    /\ Idle
    /\ IF id <= 0
       THEN /\ last' = [op |-> "delete_activity", ok |-> FALSE, err |-> "Validation",
                        id |-> id]
            /\ UNCHANGED <<activities, fts, pets, nextId, updates, tx>>
       ELSE IF ~get_activity_by_id(activities, id).ok
       THEN /\ last' = [op |-> "delete_activity", ok |-> FALSE,
                        err |-> get_activity_by_id(activities, id).err, id |-> id]
            /\ UNCHANGED <<activities, fts, pets, nextId, updates, tx>>
       ELSE delete_activity(id)

(***************************************************************************)
(* get_activity_for_pet, update_activity_for_pet, delete_activity_for_pet  *)
(***************************************************************************)
\* the checks the three commands make before they act, in code order: both
\* ids positive, the pet exists, the activity is found, it belongs to the pet
ForPetCheck(pet_id, id) ==
    IF pet_id <= 0 \/ id <= 0 THEN "Validation"
    ELSE IF pet_id \notin DOMAIN pets THEN "Validation"
    ELSE IF ~get_activity_by_id(activities, id).ok THEN get_activity_by_id(activities, id).err
    ELSE IF activities[id].pet_id # pet_id THEN "Validation"
    ELSE ""

get_activity_for_pet(pet_id, id) ==
    /\ Idle
    /\ last' = [op |-> "get_activity_for_pet", ok |-> ForPetCheck(pet_id, id) = "",
                err |-> ForPetCheck(pet_id, id), pet_id |-> pet_id, id |-> id,
                row |-> IF ForPetCheck(pet_id, id) = "" THEN activities[id] ELSE NoData]
    /\ UNCHANGED <<activities, fts, pets, nextId, updates, tx>>

update_activity_for_pet(pet_id, id, u) ==
    /\ Idle
    /\ IF ForPetCheck(pet_id, id) # ""
       THEN /\ last' = [op |-> "update_activity_for_pet", ok |-> FALSE,
                        err |-> ForPetCheck(pet_id, id), pet_id |-> pet_id, id |-> id,
                        req |-> u]
            /\ UNCHANGED <<activities, fts, pets, nextId, updates, tx>>
       ELSE update_activity(id, u)

delete_activity_for_pet(pet_id, id) ==
    /\ Idle
    /\ IF ForPetCheck(pet_id, id) # ""
       THEN /\ last' = [op |-> "delete_activity_for_pet", ok |-> FALSE,
                        err |-> ForPetCheck(pet_id, id), pet_id |-> pet_id, id |-> id]
            /\ UNCHANGED <<activities, fts, pets, nextId, updates, tx>>
       ELSE delete_activity(id)

(***************************************************************************)
(* export_activities_to_json and create_activity_backup                    *)
(*                                                                         *)
(* Attachment rows are written and deleted by the same statements'         *)
(* transactions as the activity rows they belong to; the model carries the *)
(* activity table and the index.                                           *)
(***************************************************************************)
\* one element of the exported "activities" array
ExportItem(acts, id) ==
    [id |-> id, pet_id |-> acts[id].pet_id, category |-> acts[id].category,
     subcategory |-> acts[id].subcategory, title |-> acts[id].title,
     description |-> acts[id].description, location |-> acts[id].location,
     activity_date |-> acts[id].activity_date, activity_data |-> acts[id].activity_data]

\* the document built from get_activities(pet_id, None, None, None)
ExportDocument(acts, pet_id) ==
    LET result == GetActivities(acts, pet_id, NoInt, NoInt) IN
    [is_object |-> TRUE, has_array |-> TRUE, pet_id |-> pet_id,
     total_activities |-> result.total_count,
     activities |-> [k \in 1..Len(result.activities)
                        |-> ExportItem(acts, result.activities[k])]]

export_activities_to_json(pet_id) ==
    /\ last' = IF PageLoads(activities,
                            GetActivities(activities, pet_id, NoInt, NoInt).activities)
               THEN [op |-> "export_activities_to_json", ok |-> TRUE, err |-> "",
                     pet_id |-> pet_id, result |-> ExportDocument(activities, pet_id)]
               ELSE [op |-> "export_activities_to_json", ok |-> FALSE,
                     err |-> "row_to_activity", pet_id |-> pet_id]
    /\ UNCHANGED <<activities, fts, pets, nextId, updates, tx>>

\* "backup_version": "1.0" and "activities": export_activities_to_json(None)
BackupDocument(acts) ==
    [backup_version |-> TRUE, has_activities |-> TRUE,
     activities |-> ExportDocument(acts, NoInt)]

(***************************************************************************)
(* import_activities_from_json and import_single_activity                  *)
(***************************************************************************)
\* import_single_activity: columns title, description, category, subcategory,
\* with description.unwrap_or_default()
ImportFtsEntry(row) ==
    [title |-> row.title, description |-> UnwrapOrDefault(row.description),
     category |-> row.category, subcategory |-> row.subcategory, location |-> NULL]

\* the fields import_single_activity requires, in the order it reads them
ImportItemError(item) ==
    IF item.pet_id = NoInt THEN "Missing or invalid pet_id"
    ELSE IF item.category = NULL THEN "Missing category"
    ELSE IF item.category \notin Categories THEN "Invalid activity category"
    ELSE IF item.title = NULL THEN "Missing title"
    ELSE IF item.activity_date = NoInt THEN "Missing activity_date"
    ELSE ""

\* the row the INSERT stores: the id of the document is not used
ImportRow(item) ==
    [pet_id |-> item.pet_id, category |-> item.category,
     subcategory |-> UnwrapOrDefault(item.subcategory), title |-> item.title,
     description |-> item.description, location |-> item.location,
     activity_date |-> item.activity_date, activity_data |-> item.activity_data]

\* one call of import_single_activity on the tables of the open transaction;
\* storage: "ok", or the statement that fails ("insert", "fts")
ImportSingle(st, item, storage) ==
    IF ImportItemError(item) # "" \/ storage = "insert"
    THEN [st EXCEPT !.failed = @ + 1]
    ELSE IF storage = "fts" \/ st.next \in Ids(st.index)
    THEN [st EXCEPT !.acts = Put(st.acts, st.next, ImportRow(item)),
                    !.next = @ + 1, !.failed = @ + 1]
    ELSE [st EXCEPT !.acts = Put(st.acts, st.next, ImportRow(item)),
                    !.index = Put(st.index, st.next, ImportFtsEntry(ImportRow(item))),
                    !.next = @ + 1, !.imported = @ + 1]

\* a storage failure: the statement that fails and the item it fails on
NoFail == [at |-> 0, stage |-> "ok"]

\* for (index, activity_json) in activities.iter().enumerate()
RECURSIVE ImportLoop(_, _, _, _)
ImportLoop(st, items, k, fail) ==
    IF k > Len(items) THEN st
    ELSE ImportLoop(ImportSingle(st, items[k], IF fail.at = k THEN fail.stage ELSE "ok"),
                    items, k + 1, fail)

\* every write of the loop committed, whatever failed
ImportOutcome_partial(before, st) == st

\* if total_failed > 0 { transaction.rollback() } else { transaction.commit() }
ImportOutcome(before, st) == IF st.failed > 0 THEN before ELSE st

\* import_activities_from_json on the tables (acts, index) with next id next
ImportActivities(acts, index, next, doc, fail, commit_ok) ==
    LET before == [acts |-> acts, index |-> index, next |-> next, imported |-> 0,
                   failed |-> 0]
        st == IF doc.is_object /\ doc.has_array
              THEN ImportLoop(before, doc.activities, 1, fail)
              ELSE before
        after == IF commit_ok THEN ImportOutcome(before, st) ELSE before
    IN IF ~doc.is_object
       THEN [ok |-> FALSE, err |-> "Invalid import format: not an object", st |-> before]
       ELSE IF ~doc.has_array
       THEN [ok |-> FALSE, err |-> "Invalid import format: missing activities array",
             st |-> before]
       ELSE IF st.failed > 0
       THEN [ok |-> FALSE, err |-> "Import failed", st |-> [after EXCEPT !.failed = st.failed]]
       ELSE IF ~commit_ok
       THEN [ok |-> FALSE, err |-> "commit", st |-> before]
       ELSE [ok |-> TRUE, err |-> "", st |-> after]

import_activities_from_json(doc, fail, commit_ok) ==
    LET r == ImportActivities(activities, fts, nextId, doc, fail, commit_ok) IN
    /\ Idle
    /\ activities' = r.st.acts
    /\ fts' = r.st.index
    /\ nextId' = r.st.next
    /\ last' = [op |-> "import_activities_from_json", ok |-> r.ok, err |-> r.err,
                total |-> IF doc.is_object /\ doc.has_array
                          THEN Len(doc.activities) ELSE 0,
                total_imported |-> r.st.imported, total_failed |-> r.st.failed]
    /\ UNCHANGED <<pets, updates, tx>>

(***************************************************************************)
(* restore_from_backup                                                     *)
(***************************************************************************)
\* The handler in code order: the version check; a transaction that holds the
\* three DELETE statements and is committed (clear_ok: whether its
\* statements and the backup of the current data succeed); the import of the
\* backup's "activities"; on its failure the import of the current backup,
\* whose result is the result of the call.
RestoreFromBackup(acts, index, next, backup, clear_ok, fail, fail_back) ==
    LET before == [acts |-> acts, index |-> index, next |-> next, imported |-> 0,
                   failed |-> 0]
        cleared == [before EXCEPT !.acts = EmptyTable, !.index = EmptyTable]
        current_backup == BackupDocument(acts)
        first == ImportActivities(EmptyTable, EmptyTable, next, backup.activities,
                                  fail, TRUE)
        back == ImportActivities(EmptyTable, EmptyTable, next, current_backup.activities,
                                 fail_back, TRUE)
    IN IF ~backup.backup_version
       THEN [ok |-> FALSE, err |-> "Invalid backup format: missing version", st |-> before]
       ELSE IF ~clear_ok \/ ~PageLoads(acts, GetActivities(acts, NoInt, NoInt, NoInt).activities)
       THEN [ok |-> FALSE, err |-> "storage", st |-> before]
       ELSE IF ~backup.has_activities
       THEN [ok |-> FALSE, err |-> "Backup data does not contain activities", st |-> cleared]
       ELSE IF first.ok THEN first
       ELSE back

restore_from_backup(backup, clear_ok, fail, fail_back) ==
    LET r == RestoreFromBackup(activities, fts, nextId, backup, clear_ok, fail, fail_back) IN
    /\ Idle
    /\ activities' = r.st.acts
    /\ fts' = r.st.index
    /\ nextId' = r.st.next
    /\ last' = [op |-> "restore_from_backup", ok |-> r.ok, err |-> r.err,
                total_imported |-> r.st.imported, total_failed |-> r.st.failed]
    /\ UNCHANGED <<pets, updates, tx>>

(***************************************************************************)
(* verify_fts_integrity                                                    *)
(***************************************************************************)
\* only the two counts compared
VerifyReport_counts(acts, index, accessible) ==
    [is_valid |-> accessible /\ Cardinality(Ids(acts)) = Cardinality(Ids(index)),
     issues |-> {}, activities_count |-> Cardinality(Ids(acts)),
     fts_count |-> Cardinality(Ids(index))]

\* accessible: outcome of the first COUNT(*) on activities_fts
VerifyReport(acts, index, accessible) ==
    IF ~accessible
    THEN [is_valid |-> FALSE, issues |-> {"not accessible"}, activities_count |-> 0,
          fts_count |-> 0]
    ELSE LET activities_count == Cardinality(Ids(acts))
             fts_count == Cardinality(Ids(index))
             orphaned_fts == Cardinality(Ids(index) \ Ids(acts))
             missing_fts == Cardinality(Ids(acts) \ Ids(index))
             issues == (IF activities_count # fts_count THEN {"count mismatch"} ELSE {})
                       \cup (IF orphaned_fts > 0 THEN {"orphaned"} ELSE {})
                       \cup (IF missing_fts > 0 THEN {"missing"} ELSE {})
         IN [is_valid |-> issues = {}, issues |-> issues,
             activities_count |-> activities_count, fts_count |-> fts_count]

VerifyOutcomes == {"ok", "not accessible", "error"}

\* a check that also deletes the orphans it finds
verify_fts_integrity_fixing(outcome) ==
    /\ last' = [op |-> "verify_fts_integrity", ok |-> TRUE, err |-> "",
                accessible |-> (outcome = "ok"),
                report |-> VerifyReport(activities, fts, outcome = "ok")]
    /\ fts' = Remove(fts, Ids(fts) \ Ids(activities))
    /\ UNCHANGED <<activities, pets, nextId, updates, tx>>

\* The five SELECT COUNT(*) of the check, read from the committed tables.
\* outcome "error": one of the later count queries fails
verify_fts_integrity(outcome) ==
    /\ last' = IF outcome = "error"
               THEN [op |-> "verify_fts_integrity", ok |-> FALSE, err |-> "InvalidData"]
               ELSE [op |-> "verify_fts_integrity", ok |-> TRUE, err |-> "",
                     accessible |-> (outcome = "ok"),
                     report |-> VerifyReport(activities, fts, outcome = "ok")]
    /\ UNCHANGED <<activities, fts, pets, nextId, updates, tx>>

(***************************************************************************)
(* Storage transactions of rebuild_fts_index and repair_fts_index          *)
(*                                                                         *)
(* tx.work is the index as the open transaction sees it, tx.before the     *)
(* committed index when the operation was called.  Statements on the pool  *)
(* (readers) see the committed index fts.  While an index operation is in  *)
(* progress the single logical writer issues no other write.               *)
(***************************************************************************)
OpenTx(op, pc) ==
    [op |-> op, pc |-> pc, work |-> fts, todo |-> {}, removed |-> 0, added |-> 0,
     before |-> fts]

\* last is the latest event: the result of the call that returned last, or the
\* mark of a call that has started and not returned yet
Running(op) == [op |-> "running", ok |-> TRUE, err |-> "", call |-> op]

InTx(op, pcs) == tx.op = op /\ tx.pc \in pcs

\* a statement inside the transaction fails: `?` returns InvalidData and the
\* dropped transaction handle rolls back
Rollback(op) ==
    /\ tx' = NoTx
    /\ last' = [op |-> op, ok |-> FALSE, err |-> "InvalidData",
                committed |-> FALSE]
    /\ UNCHANGED <<activities, fts, pets, nextId, updates>>

(***************************************************************************)
(* rebuild_fts_index                                                       *)
(***************************************************************************)
\* pool.begin()
rebuild_fts_index_begin(ok) ==
    /\ Idle
    /\ IF ok
       THEN /\ tx' = OpenTx("rebuild_fts_index", "clear")
            /\ last' = Running("rebuild_fts_index")
       ELSE /\ tx' = NoTx
            /\ last' = [op |-> "rebuild_fts_index", ok |-> FALSE, err |-> "InvalidData",
                        committed |-> FALSE]
    /\ UNCHANGED <<activities, fts, pets, nextId, updates>>

\* the clear statement left out
RebuildClear_kept(work) == work

\* DELETE FROM activities_fts
RebuildClear(work) == EmptyTable

\* the clear statement executed on the pool, outside the transaction
rebuild_fts_index_clear_pool ==
    /\ InTx("rebuild_fts_index", {"clear"})
    /\ tx' = [tx EXCEPT !.work = RebuildClear(tx.work), !.pc = "fetch"]
    /\ fts' = RebuildClear(fts)
    /\ last' = Running(tx.op)
    /\ UNCHANGED <<activities, pets, nextId, updates>>

\* .execute(&mut *tx)
rebuild_fts_index_clear ==
    /\ InTx("rebuild_fts_index", {"clear"})
    /\ tx' = [tx EXCEPT !.work = RebuildClear(tx.work), !.pc = "fetch"]
    /\ last' = Running(tx.op)
    /\ UNCHANGED <<activities, fts, pets, nextId, updates>>

\* SELECT id, title, description, subcategory, location FROM activities
rebuild_fts_index_fetch ==
    /\ InTx("rebuild_fts_index", {"fetch"})
    /\ tx' = [tx EXCEPT !.todo = Ids(activities), !.pc = "insert"]
    /\ last' = Running(tx.op)
    /\ UNCHANGED <<activities, fts, pets, nextId, updates>>

\* one iteration of the loop over the fetched rows
rebuild_fts_index_insert ==
    /\ InTx("rebuild_fts_index", {"insert"})
    /\ tx.todo # {}
    /\ LET id == Min(tx.todo) IN
       tx' = [tx EXCEPT !.work = Put(tx.work, id, RebuildFtsEntry(activities[id])),
                        !.todo = tx.todo \ {id},
                        !.added = tx.added + 1]
    /\ last' = Running(tx.op)
    /\ UNCHANGED <<activities, fts, pets, nextId, updates>>

\* INSERT INTO activities_fts(activities_fts) VALUES('optimize')
rebuild_fts_index_optimize ==
    /\ InTx("rebuild_fts_index", {"insert"})
    /\ tx.todo = {}
    /\ tx' = [tx EXCEPT !.pc = "commit"]
    /\ last' = Running(tx.op)
    /\ UNCHANGED <<activities, fts, pets, nextId, updates>>

\* tx.commit()
rebuild_fts_index_commit ==
    /\ InTx("rebuild_fts_index", {"commit"})
    /\ fts' = tx.work
    /\ tx' = [tx EXCEPT !.pc = "stats"]
    /\ last' = Running(tx.op)
    /\ UNCHANGED <<activities, pets, nextId, updates>>

\* self.get_fts_index_stats().await, after the commit: its count query can fail
rebuild_fts_index_stats(ok) ==
    /\ InTx("rebuild_fts_index", {"stats"})
    /\ tx' = NoTx
    /\ last' = IF ok
               THEN [op |-> "rebuild_fts_index", ok |-> TRUE, err |-> "",
                     committed |-> TRUE, document_count |-> Cardinality(Ids(fts))]
               ELSE [op |-> "rebuild_fts_index", ok |-> FALSE, err |-> "InvalidData",
                     committed |-> TRUE]
    /\ UNCHANGED <<activities, fts, pets, nextId, updates>>

rebuild_fts_index_fail ==
    /\ InTx("rebuild_fts_index", {"clear", "fetch", "insert", "commit"})
    /\ Rollback("rebuild_fts_index")

(***************************************************************************)
(* repair_fts_index                                                        *)
(***************************************************************************)
\* self.verify_fts_integrity().await? and the early return
repair_fts_index_verify(outcome) ==
    /\ Idle
    /\ IF outcome = "error"
       THEN /\ tx' = NoTx
            /\ last' = [op |-> "repair_fts_index", ok |-> FALSE, err |-> "InvalidData",
                        committed |-> FALSE]
       ELSE IF VerifyReport(activities, fts, outcome = "ok").is_valid
       THEN /\ tx' = NoTx
            /\ last' = [op |-> "repair_fts_index", ok |-> TRUE, err |-> "",
                        committed |-> FALSE, removed_orphans |-> 0, added_missing |-> 0,
                        repaired_entries |-> 0]
       ELSE /\ tx' = OpenTx("repair_fts_index", "begin")
            /\ last' = Running("repair_fts_index")
    /\ UNCHANGED <<activities, fts, pets, nextId, updates>>

\* pool.begin()
repair_fts_index_begin ==
    /\ InTx("repair_fts_index", {"begin"})
    /\ tx' = [tx EXCEPT !.pc = "orphans"]
    /\ last' = Running(tx.op)
    /\ UNCHANGED <<activities, fts, pets, nextId, updates>>

\* the orphans left in place
RepairRemoveOrphans_none(work, acts) == work

\* DELETE FROM activities_fts WHERE rowid NOT IN (SELECT id FROM activities)
RepairRemoveOrphans(work, acts) == Remove(work, Ids(work) \ Ids(acts))

repair_fts_index_orphans ==
    /\ InTx("repair_fts_index", {"orphans"})
    /\ tx' = [tx EXCEPT !.work = RepairRemoveOrphans(tx.work, activities),
                        !.removed = Cardinality(Ids(tx.work))
                                    - Cardinality(Ids(RepairRemoveOrphans(tx.work, activities))),
                        !.pc = "fetch"]
    /\ last' = Running(tx.op)
    /\ UNCHANGED <<activities, fts, pets, nextId, updates>>

\* SELECT ... FROM activities WHERE id NOT IN (SELECT rowid FROM activities_fts)
RepairMissing(work, acts) == Ids(acts) \ Ids(work)

repair_fts_index_fetch ==
    /\ InTx("repair_fts_index", {"fetch"})
    /\ tx' = [tx EXCEPT !.todo = RepairMissing(tx.work, activities), !.pc = "insert"]
    /\ last' = Running(tx.op)
    /\ UNCHANGED <<activities, fts, pets, nextId, updates>>

repair_fts_index_insert ==
    /\ InTx("repair_fts_index", {"insert"})
    /\ tx.todo # {}
    /\ LET id == Min(tx.todo) IN
       tx' = [tx EXCEPT !.work = Put(tx.work, id, RebuildFtsEntry(activities[id])),
                        !.todo = tx.todo \ {id},
                        !.added = tx.added + 1]
    /\ last' = Running(tx.op)
    /\ UNCHANGED <<activities, fts, pets, nextId, updates>>

\* the optimize statement, run only if repaired_entries > 0
repair_fts_index_optimize ==
    /\ InTx("repair_fts_index", {"insert"})
    /\ tx.todo = {}
    /\ tx' = [tx EXCEPT !.pc = "commit"]
    /\ last' = Running(tx.op)
    /\ UNCHANGED <<activities, fts, pets, nextId, updates>>

\* tx.commit() and the Ok(FtsRepairResult)
repair_fts_index_commit ==
    /\ InTx("repair_fts_index", {"commit"})
    /\ fts' = tx.work
    /\ tx' = NoTx
    /\ last' = [op |-> "repair_fts_index", ok |-> TRUE, err |-> "",
                committed |-> TRUE, removed_orphans |-> tx.removed,
                added_missing |-> tx.added, repaired_entries |-> tx.removed + tx.added]
    /\ UNCHANGED <<activities, pets, nextId, updates>>

repair_fts_index_fail ==
    /\ InTx("repair_fts_index", {"begin", "orphans", "fetch", "insert", "commit"})
    /\ Rollback("repair_fts_index")

(***************************************************************************)
(* Specifications                                                          *)
(***************************************************************************)
\* the activity store: routine writes and the on-demand integrity check
Next ==
    \/ \E r \in 1..Len(Requests), b \in BOOLEAN : create_activity(r, b)
    \/ \E id \in 1..MaxId, u \in 1..Len(UpdateRequests) : update_activity(id, u)
    \/ \E id \in 1..MaxId : delete_activity(id)
    \/ \E outcome \in VerifyOutcomes : verify_fts_integrity(outcome)

Spec == Init /\ [][Next]_vars

\* the search index manager: drift produced by routine writes, then verify,
\* rebuild and repair, each statement of a transaction being one step; verify
\* reads through the pool and may run while a transaction is open
NextIndex ==
    \/ \E r \in 1..Len(Requests), b \in BOOLEAN : create_activity(r, b)
    \/ \E id \in 1..MaxId : update_activity(id, 1)
    \/ \E id \in 1..MaxId : delete_activity(id)
    \/ \E outcome \in VerifyOutcomes : verify_fts_integrity(outcome)
    \/ \E ok \in BOOLEAN : rebuild_fts_index_begin(ok)
    \/ rebuild_fts_index_clear
    \/ rebuild_fts_index_fetch
    \/ rebuild_fts_index_insert
    \/ rebuild_fts_index_optimize
    \/ rebuild_fts_index_commit
    \/ \E ok \in BOOLEAN : rebuild_fts_index_stats(ok)
    \/ rebuild_fts_index_fail
    \/ \E outcome \in VerifyOutcomes : repair_fts_index_verify(outcome)
    \/ repair_fts_index_begin
    \/ repair_fts_index_orphans
    \/ repair_fts_index_fetch
    \/ repair_fts_index_insert
    \/ repair_fts_index_optimize
    \/ repair_fts_index_commit
    \/ repair_fts_index_fail

SpecIndex == Init /\ [][NextIndex]_vars

\* readers beside the index operations: a full-text search or a verify runs
\* on the pool between any two statements of an open transaction
NextReaders ==
    \/ \E b \in BOOLEAN : create_activity(1, b)
    \/ \E id \in 1..MaxId : delete_activity(id)
    \/ verify_fts_integrity("ok")
    \/ fts_search_activities("t*", NoInt)
    \/ \E ok \in BOOLEAN : rebuild_fts_index_begin(ok)
    \/ rebuild_fts_index_clear
    \/ rebuild_fts_index_fetch
    \/ rebuild_fts_index_insert
    \/ rebuild_fts_index_optimize
    \/ rebuild_fts_index_commit
    \/ \E ok \in BOOLEAN : rebuild_fts_index_stats(ok)
    \/ rebuild_fts_index_fail
    \/ \E outcome \in VerifyOutcomes : repair_fts_index_verify(outcome)
    \/ repair_fts_index_begin
    \/ repair_fts_index_orphans
    \/ repair_fts_index_fetch
    \/ repair_fts_index_insert
    \/ repair_fts_index_optimize
    \/ repair_fts_index_commit
    \/ repair_fts_index_fail

SpecReaders == Init /\ [][NextReaders]_vars

\* pagination is checked on tables of 0..MaxRows rows, as MaxRows creates leave them
MaxRows == 5

PageTable(n) == [i \in 1..n |-> Requests[((i - 1) % 2) + 1]]

InitPage ==
    /\ \E n \in 0..MaxRows : activities = PageTable(n)
    /\ fts = EmptyTable
    /\ pets = InitialPets
    /\ nextId = 1
    /\ updates = 0
    /\ tx = NoTx
    /\ last = [op |-> "init", ok |-> TRUE]

\* a query leaves the tables as they are, so each behaviour issues one query
NextPage ==
    /\ last.op = "init"
    /\ \E p \in {NoInt, 1, 2}, l \in {NoInt} \cup (0 - 1)..(MaxRows + 1),
          o \in {NoInt} \cup 0..(MaxRows + 1) :
          \/ get_activities(p, NoFilters, l, o)
          \/ \E q \in SearchQueries : search_activities(q, p, l, o)

SpecPage == InitPage /\ [][NextPage]_vars

\* the cap on a page is checked on tables of LimitCap..LimitCap + MaxOver rows,
\* each with the index entry its create_activity wrote
MaxOver == 1

IndexOf(acts) == [i \in Ids(acts) |-> CreateFtsEntry(acts[i])]

InitCap ==
    /\ \E n \in LimitCap..(LimitCap + MaxOver) : activities = PageTable(n)
    /\ fts = IndexOf(activities)
    /\ pets = InitialPets
    /\ nextId = 1
    /\ updates = 0
    /\ tx = NoTx
    /\ last = [op |-> "init", ok |-> TRUE]

CapLimits == {NoInt, 0 - 1, LimitCap, LimitCap + 1}

NextCap ==
    /\ last.op = "init"
    /\ \/ \E p \in {NoInt, 1}, l \in CapLimits, o \in {NoInt, 0} :
             \/ get_activities(p, NoFilters, l, o)
             \/ \E q \in {"t", "zz"} : search_activities(q, p, l, o)
       \/ \E q \in {"t*", "t1", "s1 OR s2", "zz"}, l \in CapLimits :
             fts_search_activities(q, l)

SpecCap == InitCap /\ [][NextCap]_vars

\* loading is checked on the tables of up to MaxId rows a database file can
\* hold when it is opened: rows as create_activity stores them, and rows whose
\* activity_data text is not a JSON document
StoredRows ==
    {Requests[1], Requests[2], [Requests[1] EXCEPT !.activity_data = BadData]}

InitLoad ==
    /\ \E n \in 0..MaxId : activities \in [1..n -> StoredRows]
    /\ fts = IndexOf(activities)
    /\ pets = InitialPets
    /\ nextId = 1
    /\ updates = 0
    /\ tx = NoTx
    /\ last = [op |-> "init", ok |-> TRUE]

NextLoad ==
    /\ last.op = "init"
    /\ \/ \E id \in 1..MaxId : get_activity(id)
       \/ \E p \in {NoInt, 1}, l \in {NoInt, 1}, o \in {NoInt, 0, 1} :
             \/ get_activities(p, NoFilters, l, o)
             \/ \E q \in {"t", "zz"} : search_activities(q, p, l, o)
       \/ \E q \in {"t1", "t*"}, l \in {NoInt, 1} : fts_search_activities(q, l)

SpecLoad == InitLoad /\ [][NextLoad]_vars

\* the payload codec is checked on typed documents of every variant, on
\* documents in the frontend block format and on documents of neither form
MeasurementBlocks(key) ==
    {JObj([value |-> JNum(5201), unit |-> JStr("kg")]),
     JObj([value |-> JNum(5200), unit |-> JStr("g"), measurementType |-> JStr("body")]),
     JObj([value |-> JNum(5200)]),
     JObj([value |-> JStr("5.2"), unit |-> JStr("kg")]),
     JObj([date |-> JStr("2024-01-01"), measurementType |-> JStr(key),
           value |-> JNum(5200), unit |-> JStr("kg")])}

PortionBlocks ==
    {JObj([amount |-> JNum(200000), unit |-> JStr("g"), portionType |-> JStr("meal"),
           brand |-> JStr("b")]),
     JObj([amount |-> JNum(250001), unit |-> JStr("ml"), portionType |-> JStr("bowl")]),
     JObj([amount |-> JNum(250000), unit |-> JStr("ml")])}

OptField(key, v) == IF v = JMissing THEN NoFields ELSE key :> v

BlockDocuments ==
    {JObj(OptField("weight", w) @@ OptField("height", h) @@ OptField("portion", p)
          @@ OptField("notes", n)) :
        w \in MeasurementBlocks("weight") \cup {JMissing},
        h \in {JObj([value |-> JNum(30000), unit |-> JStr("cm")]), JMissing},
        p \in PortionBlocks \cup {JMissing},
        n \in {JStr("n"), JMissing}}

TypedDocument(variant, data) == JObj([type |-> JStr(variant), data |-> data])

TypedDocuments ==
    {TypedDocument("Weight", JObj([value |-> JNum(5201), unit |-> JStr("kg"),
                                   measurement_type |-> JStr("weight"), notes |-> JStr("n")])),
     TypedDocument("Weight", JObj([value |-> JNum(5200), unit |-> JStr("lbs"),
                                   measurement_type |-> JStr("weight")])),
     TypedDocument("Weight", JObj([value |-> JNum(5200)])),
     TypedDocument("Height", JObj([value |-> JNum(30000), unit |-> JStr("cm"),
                                   measurement_type |-> JStr("height"), notes |-> JNull])),
     TypedDocument("Feeding", JObj([portion_type |-> JStr("meal"), amount |-> JNum(200000),
                                    unit |-> JStr("g"), brand |-> JStr("b")])),
     TypedDocument("WaterIntake", JObj([amount |-> JNum(250000), unit |-> JStr("ml"),
                                        source |-> JStr("bowl")])),
     TypedDocument("WaterIntake", JObj([amount |-> JNum(250000), unit |-> JStr("ml")])),
     TypedDocument("Vaccination", JObj([vaccine_name |-> JStr("rabies"),
                                        vet_name |-> JStr("v")])),
     TypedDocument("CheckUp", JObj(NoFields)),
     TypedDocument("CheckUp", JObj([diagnosis |-> JStr("ok"), temperature |-> JNum(38500),
                                    heart_rate |-> JNum(72000)])),
     TypedDocument("Custom", JObj([a |-> JNum(1000)])),
     TypedDocument("Custom", JObj([weight |-> JObj([value |-> JNum(5200),
                                                    unit |-> JStr("kg")])])),
     TypedDocument("Grooming", JObj([a |-> JNum(1000)]))}

OtherDocuments ==
    {JNull, JNum(123000), JStr("text"),
     JObj([some_custom_field |-> JStr("value"), another_field |-> JNum(123000)])}

Documents == BlockDocuments \cup TypedDocuments \cup OtherDocuments

InitCodec ==
    /\ activities = EmptyTable
    /\ fts = EmptyTable
    /\ pets = InitialPets
    /\ nextId = 1
    /\ updates = 0
    /\ tx = NoTx
    /\ \E d \in Documents : last = [op |-> "document", ok |-> TRUE, doc |-> d]

\* from_legacy_json applied to the document, or to the blocks emitted from it
from_legacy_json_call ==
    /\ last.op \in {"document", "to_frontend_blocks"}
    /\ last' = IF last.op = "document"
               THEN [op |-> "from_legacy_json", ok |-> TRUE, doc |-> last.doc,
                     data |-> from_legacy_json(last.doc)]
               ELSE [op |-> "round_trip", ok |-> TRUE, doc |-> last.doc,
                     data |-> last.data, blocks |-> last.blocks,
                     again |-> from_legacy_json(last.blocks)]
    /\ UNCHANGED <<activities, fts, pets, nextId, updates, tx>>

to_frontend_blocks_call ==
    /\ last.op = "from_legacy_json"
    /\ last' = [op |-> "to_frontend_blocks", ok |-> TRUE, doc |-> last.doc,
                data |-> last.data, blocks |-> to_frontend_blocks(last.data)]
    /\ UNCHANGED <<activities, fts, pets, nextId, updates, tx>>

\* the two predicates the store derives from a decoded payload
should_update_pet_profile_call ==
    /\ last.op = "from_legacy_json"
    /\ last' = [op |-> "should_update_pet_profile", ok |-> TRUE, doc |-> last.doc,
                data |-> last.data, result |-> should_update_pet_profile(last.data),
                weight_kg |-> extract_weight_kg(last.data)]
    /\ UNCHANGED <<activities, fts, pets, nextId, updates, tx>>

NextCodec ==
    \/ from_legacy_json_call
    \/ to_frontend_blocks_call
    \/ should_update_pet_profile_call

SpecCodec == InitCodec /\ [][NextCodec]_vars

(***************************************************************************)
(* Weight conversion: convert_weight_to_kg applied to one value and unit.  *)
(* Values are thousandths; the units are the table's in several spellings, *)
(* and units outside the table.                                            *)
(***************************************************************************)
WeightValues == {0, 1, 999, 1000, 2205, 5000, 11025, 35274}

WeightUnits == {"kg", "KG", "Kg", "g", "G", "lb", "LB", "Lb", "lbs", "LBS", "Lbs",
                "oz", "OZ", "Oz", "stone", "kgs", " kg", ""}

\* 5000 g, the input of test_extract_weight_kg, beside every value with every unit
WeightInputs == (WeightValues \X WeightUnits) \cup ({5000000} \X {"g", "G", "kg"})

InitWeight ==
    /\ activities = EmptyTable
    /\ fts = EmptyTable
    /\ pets = InitialPets
    /\ nextId = 1
    /\ updates = 0
    /\ tx = NoTx
    /\ \E i \in WeightInputs :
         last = [op |-> "weight", ok |-> TRUE, value |-> i[1], unit |-> i[2]]

convert_weight_to_kg_call ==
    /\ last.op = "weight"
    /\ last' = [op |-> "convert_weight_to_kg", ok |-> TRUE, value |-> last.value,
                unit |-> last.unit,
                result |-> convert_weight_to_kg(last.value, last.unit)]
    /\ UNCHANGED <<activities, fts, pets, nextId, updates, tx>>

NextWeight == convert_weight_to_kg_call

SpecWeight == InitWeight /\ [][NextWeight]_vars

(***************************************************************************)
(* Query sanitizing: fts_search_activities on every text of up to          *)
(* MaxQueryLen characters over letters, digits, the letters of the word    *)
(* OR, blanks, a control character, the symbols sanitize_fts_query keeps   *)
(* and one it removes.                                                     *)
(***************************************************************************)
MaxQueryLen == 3

QueryChars == {"t", "1", "O", "R", " ", "\t", "\"", "-", "*", "!"}

RECURSIVE QueriesOfLen(_)
QueriesOfLen(n) ==
    IF n = 0 THEN {""} ELSE {q \o c : q \in QueriesOfLen(n - 1), c \in QueryChars}

FtsQueries == UNION {QueriesOfLen(n) : n \in 0..MaxQueryLen}

InitFts ==
    /\ activities = PageTable(2)
    /\ fts = IndexOf(activities)
    /\ pets = InitialPets
    /\ nextId = 1
    /\ updates = 0
    /\ tx = NoTx
    /\ last = [op |-> "init", ok |-> TRUE]

NextFts ==
    /\ last.op = "init"
    /\ \E q \in FtsQueries : fts_search_activities(q, NoInt)

SpecFts == InitFts /\ [][NextFts]_vars

\* the commands a caller invokes by activity id, on the tables create_activity
\* fills; ids from 0 (not positive) to MaxId (stored, deleted or never stored)
NextCommand ==
    \/ \E r \in 1..Len(Requests), b \in BOOLEAN : create_activity(r, b)
    \/ \E id \in 0..MaxId : get_activity(id)
    \/ \E id \in 0..MaxId, u \in 1..Len(UpdateRequests) : commands_update_activity(id, u)
    \/ \E id \in 0..MaxId : commands_delete_activity(id)

SpecCommand == Init /\ [][NextCommand]_vars

\* the commands that take the owner beside the activity id; pet ids from 0
\* (not positive) to 3 (no such pet)
PetIds == 0..3

NextOwner ==
    \/ \E r \in 1..Len(Requests), b \in BOOLEAN : create_activity(r, b)
    \/ \E p \in PetIds, id \in 0..MaxId : get_activity_for_pet(p, id)
    \/ \E p \in PetIds, id \in 0..MaxId, u \in 1..Len(UpdateRequests) :
          update_activity_for_pet(p, id, u)
    \/ \E p \in PetIds, id \in 0..MaxId : delete_activity_for_pet(p, id)

SpecOwner == Init /\ [][NextOwner]_vars

\* export is checked on tables of up to DefaultLimit + MaxOver rows
InitExport ==
    /\ \E n \in 0..(DefaultLimit + MaxOver) : activities = PageTable(n)
    /\ fts = IndexOf(activities)
    /\ pets = InitialPets
    /\ nextId = Cardinality(Ids(activities)) + 1
    /\ updates = 0
    /\ tx = NoTx
    /\ last = [op |-> "init", ok |-> TRUE]

NextExport ==
    /\ last.op = "init"
    /\ \E p \in {NoInt, 1, 2} : export_activities_to_json(p)

SpecExport == InitExport /\ [][NextExport]_vars

\* get_activities with a categories filter, on the tables of SpecPage
CategoryFilters ==
    {NoFilters} \cup {[some |-> TRUE, categories |-> c] :
                         c \in {{"health"}, {"diet"}, {"health", "growth"}}}

NextFilter ==
    /\ last.op = "init"
    /\ \E p \in {NoInt, 1, 2}, f \in CategoryFilters, l \in {NoInt, 2}, o \in {NoInt, 0, 1} :
          get_activities(p, f, l, o)

SpecFilter == InitPage /\ [][NextFilter]_vars

(***************************************************************************)
(* Import and restore: documents of up to MaxDoc activities, on the tables *)
(* of up to MaxId rows that create_activity leaves.                        *)
(***************************************************************************)
MaxDoc == 2

\* activities as export writes them, one of an owner that is not a pet, and
\* one without a title
ImportItems ==
    {ExportItem(<<Requests[1]>>, 1), ExportItem(<<Requests[2]>>, 1),
     ExportItem(<<Requests[3]>>, 1),
     [ExportItem(<<Requests[1]>>, 1) EXCEPT !.title = NULL]}

RECURSIVE ItemsOfLen(_)
ItemsOfLen(n) ==
    IF n = 0 THEN {<<>>} ELSE {Append(q, i) : q \in ItemsOfLen(n - 1), i \in ImportItems}

\* a value that is not an object, an object without an "activities" array,
\* and the objects with one
NoDocument == [is_object |-> FALSE, has_array |-> FALSE, activities |-> <<>>]

ImportDocuments ==
    {NoDocument, [is_object |-> TRUE, has_array |-> FALSE, activities |-> <<>>]}
    \cup {[is_object |-> TRUE, has_array |-> TRUE, activities |-> items] :
             items \in UNION {ItemsOfLen(n) : n \in 0..MaxDoc}}

\* a backup without "backup_version", one without "activities", and the
\* backups with both
Backups ==
    {[backup_version |-> FALSE, has_activities |-> FALSE, activities |-> NoDocument],
     [backup_version |-> TRUE, has_activities |-> FALSE, activities |-> NoDocument]}
    \cup {[backup_version |-> TRUE, has_activities |-> TRUE, activities |-> doc] :
             doc \in ImportDocuments}

\* the storage failures of an import: none, or one statement on one item
Fails == {NoFail} \cup [at : 1..MaxDoc, stage : {"insert", "fts"}]

InitImport ==
    /\ \E n \in 0..MaxId : activities \in [1..n -> {Requests[1], Requests[2]}]
    /\ fts = IndexOf(activities)
    /\ pets = InitialPets
    /\ nextId = Cardinality(Ids(activities)) + 1
    /\ updates = 0
    /\ tx = NoTx
    /\ last = [op |-> "init", ok |-> TRUE]

NextImport ==
    /\ last.op = "init"
    /\ \/ \E doc \in ImportDocuments, fail \in Fails, commit_ok \in BOOLEAN :
             import_activities_from_json(doc, fail, commit_ok)
       \/ \E backup \in Backups, clear_ok \in BOOLEAN, fail \in Fails,
             fail_back \in {NoFail, [at |-> 1, stage |-> "insert"]} :
             restore_from_backup(backup, clear_ok, fail, fail_back)

SpecImport == InitImport /\ [][NextImport]_vars

(***************************************************************************)
(* Properties                                                              *)
(***************************************************************************)
SearchText(r) == <<r.title, r.description, r.subcategory>>

Orphans(index, acts) == Ids(index) \ Ids(acts)

Gaps(index, acts) == Ids(acts) \ Ids(index)

\* C1: a repair_fts_index call that returns Ok leaves the tables in a state
\* that verify_fts_integrity reports as valid, whatever drift it started from.
C1_RepairLeavesValid ==
    (last.op = "repair_fts_index" /\ last.ok)
        => VerifyReport(activities, fts, TRUE).is_valid

\* a repair that removed an orphan and added a missing entry has returned
C1_Witness ==
    /\ last.op = "repair_fts_index" /\ last.ok
    /\ last.removed_orphans > 0 /\ last.added_missing > 0

C3_RebuildExact ==
    (InTx("rebuild_fts_index", {"stats"}) \/ (last.op = "rebuild_fts_index" /\ last.committed))
        => /\ Ids(fts) = Ids(activities)
           /\ \A id \in Ids(fts) :
                 /\ fts[id].title = activities[id].title
                 /\ fts[id].description = activities[id].description
                 /\ fts[id].subcategory = activities[id].subcategory
                 /\ fts[id].location = activities[id].location

\* a rebuild has committed over an index that held an orphan and a stale entry
C3_Witness ==
    /\ InTx("rebuild_fts_index", {"stats"})
    /\ Orphans(tx.before, activities) # {}
    /\ \E id \in Ids(tx.before) \cap Ids(activities) :
          SearchText(tx.before[id]) # SearchText(activities[id])

\* C4: after a successful create_activity whose payload is a weight
\* measurement, the owning pet's weight_kg is that weight in kilograms.
C4_CreateSetsPetWeight ==
    (last.op = "create_activity" /\ last.ok
        /\ Requests[last.req].activity_data.kind = "weight")
        => pets[Requests[last.req].pet_id].weight_kg
              = extract_weight_kg(Requests[last.req].activity_data)

\* C5: the activity and its pet-weight side effect are one unit: no state has
\* a pet's latest weight activity persisted while the pet's weight_kg is not
\* that weight.
C5_ActivityAndWeightTogether ==
    \A id \in Ids(activities) :
        (/\ activities[id].activity_data.kind = "weight"
         /\ \A j \in Ids(activities) :
               (activities[j].pet_id = activities[id].pet_id
                   /\ activities[j].activity_data.kind = "weight") => j <= id)
            => /\ activities[id].pet_id \in DOMAIN pets
               /\ pets[activities[id].pet_id].weight_kg
                     = extract_weight_kg(activities[id].activity_data)

\* C6: a verify_fts_integrity call changes neither the activity table, nor the
\* index, nor the pet table, whatever it reports.
C6_VerifyReadOnly ==
    [][last'.op = "verify_fts_integrity"
          => (activities' = activities /\ fts' = fts /\ pets' = pets /\ tx' = tx)]_vars

\* verify has reported a drifted index as invalid
C6_Witness ==
    /\ last.op = "verify_fts_integrity" /\ last.ok /\ last.accessible
    /\ ~last.report.is_valid
    /\ Orphans(fts, activities) # {}

\* C7: when rebuild_fts_index or repair_fts_index returns an error, the index
\* is the index from before the call and the error is InvalidData.
C7_ErrorLeavesIndex ==
    [][(tx.op # "none" /\ tx'.op = "none" /\ ~last'.ok)
          => (fts' = tx.before /\ last'.err = "InvalidData")]_vars

\* C8: after an update_activity call the index entry of every activity holds
\* the activity's current title, description and subcategory.
C8_IndexTracksUpdate ==
    (last.op = "update_activity" /\ last.ok)
        => \A id \in Ids(fts) \cap Ids(activities) :
              SearchText(fts[id]) = SearchText(activities[id])

\* C9: after update_activity every supplied field has its supplied value, every
\* field not supplied keeps its value, and every other activity is unchanged.
C9_PatchSemantics ==
    [][(last'.op = "update_activity" /\ last'.ok /\ updates' = updates + 1)
          => LET id == last'.id
                 req == UpdateRequests[last'.req]
                 Patched(field, supplied, old, new) ==
                     IF supplied # NULL THEN new = supplied ELSE new = old
             IN /\ Patched("title", req.title, activities[id].title, activities'[id].title)
                /\ Patched("subcategory", req.subcategory, activities[id].subcategory,
                           activities'[id].subcategory)
                /\ Patched("description", req.description, activities[id].description,
                           activities'[id].description)
                /\ Patched("category", req.category, activities[id].category,
                           activities'[id].category)
                /\ activities'[id].location = activities[id].location
                /\ activities'[id].pet_id = activities[id].pet_id
                /\ \A j \in Ids(activities) \ {id} : activities'[j] = activities[j]]_vars

\* C10: has_more is true exactly when rows remain after the returned page, an
\* omitted offset counting as 0.
C10_HasMoreIffRowsRemain ==
    (last.op = "get_activities" /\ last.ok)
        => LET offset == IF last.offset = NoInt THEN 0 ELSE last.offset
               matching == Cardinality(MatchingIds(activities, last.pet_id))
           IN last.result.has_more
                 <=> (offset + Len(last.result.activities) < matching)

\* the activities that match the request of the latest list or search call
Matching ==
    IF last.op = "search_activities"
    THEN SearchMatchingIds(activities, last.query, last.pet_id)
    ELSE MatchingIds(activities, last.pet_id)

\* C11: get_activities and search_activities return total_count equal to the
\* number of activities matching the request, for every limit and offset,
\* an offset at or past the last matching row included.
C11_TotalCountIsMatching ==
    (last.op \in {"get_activities", "search_activities"} /\ last.ok)
        => last.result.total_count = Cardinality(Matching)

\* C12: no list, search or full-text query returns more than 1000 activities,
\* whatever limit the caller passes (above 1000, negative, or none).
C12_AtMostCapRows ==
    (last.op \in {"get_activities", "search_activities", "fts_search_activities"} /\ last.ok)
        => Len(last.result.activities) <= LimitCap

C14_RoundTrip ==
    (last.op = "round_trip")
        => (last.again.kind = last.data.kind /\ last.again = last.data)

\* a block of the document holds both a date key and a measurement-type key
HasDateAndMeasurementType(doc) ==
    /\ doc.j = "object"
    /\ \E key \in DOMAIN doc.fields :
          /\ Get(Get(doc, key), "date").j # "missing"
          /\ Get(Get(doc, key), "measurementType").j # "missing"

\* C15: shapes are tried in a fixed order and the first match wins: a field
\* holding both a date key and a measurement-type key is classified as Time,
\* never as a measurement.
C15_DateBeforeMeasurement ==
    (last.op = "from_legacy_json" /\ HasDateAndMeasurementType(last.doc))
        => (last.data.kind = "time" /\ last.data.kind \notin {"weight", "height"})

\* the document has one of the shapes from_legacy_json knows
KnownShape(doc) ==
    \/ IsTyped(doc)
    \/ IsMeasurement(doc, "weight") \/ IsMeasurement(doc, "height")
    \/ IsFeeding(doc) \/ IsWaterIntake(doc)

\* C16: from_legacy_json returns a value for every document; a document of
\* no known shape becomes Custom holding the document unchanged, and
\* to_frontend_blocks of that value is the document.
C16_UnknownShapesKept ==
    /\ last.op = "document" => ENABLED from_legacy_json_call
    /\ (last.op \in {"from_legacy_json", "to_frontend_blocks"} /\ ~KnownShape(last.doc))
          => /\ last.data.kind = "custom"
             /\ last.data.doc = last.doc
             /\ last.op = "to_frontend_blocks" => last.blocks = last.doc

\* a document with a weight block that lacks its unit went through both ways
C16_Witness ==
    /\ last.op = "to_frontend_blocks" /\ ~KnownShape(last.doc)
    /\ Get(last.doc, "weight").j = "object"
    /\ last.blocks = last.doc

\* C17: should_update_pet_profile is true exactly for a weight measurement,
\* and exactly then extract_weight_kg returns a value.
C17_ProfileUpdateIffWeight ==
    (last.op = "should_update_pet_profile")
        => /\ last.result <=> (last.data.kind = "weight")
           /\ last.result <=> (last.weight_kg # NoInt)

\* C18: weight conversion never fails and follows the unit table: kg returns
\* the value, g the value divided by 1000 (5000 g gives 5.0), lb/lbs and oz are
\* divided by 2.205 and 35.274, the unit is compared without regard to case,
\* and a unit outside the table returns the value unconverted.
C18_Quotient(value, per, result) ==
    /\ result * per <= value
    /\ value < (result + 1) * per

C18_WeightTable ==
    /\ last.op = "weight" => ENABLED convert_weight_to_kg_call
    /\ last.op = "convert_weight_to_kg" =>
         LET v == last.value
             u == last.unit
             r == last.result
         IN /\ u \in {"kg", "KG", "Kg"} => r = v
            /\ u \in {"g", "G"} => C18_Quotient(v, 1000, r)
            /\ u \in {"lb", "LB", "Lb", "lbs", "LBS", "Lbs"} => C18_Quotient(v * 1000, 2205, r)
            /\ u \in {"oz", "OZ", "Oz"} => C18_Quotient(v * 1000, 35274, r)
            /\ u \in {"stone", "kgs", " kg", ""} => r = v
            /\ (v = 5000000 /\ u = "g") => r = 5000

\* an upper-case unit of the table has been converted
C18_Witness ==
    /\ last.op = "convert_weight_to_kg"
    /\ last.unit = "LBS"
    /\ last.value = 11025
    /\ last.result = 5000

\* C19: for every input text, the query that sanitize_fts_query produces is
\* accepted by the full-text engine: fts_search_activities never fails with
\* an error of the engine's query parser.
C19_SanitizedQueryAccepted ==
    last.op = "fts_search_activities" => last.err # "InvalidData"

\* C20: getting, updating or deleting an activity id that does not exist
\* returns NotFound for that id and changes neither the activity table nor
\* the index.
C20_MissingIdIsNotFound ==
    [][\A id \in 1..MaxId :
          (/\ id \notin Ids(activities)
           /\ last'.op \in {"get_activity", "update_activity", "delete_activity"}
           /\ last'.id = id)
          => (/\ last'.err = "NotFound"
              /\ activities' = activities
              /\ fts' = fts)]_vars

\* C21: get_activity_for_pet, update_activity_for_pet and
\* delete_activity_for_pet called with a pet id that differs from the
\* activity's stored owner fail with PetMismatch, and the activity is neither
\* returned, modified nor deleted.
C21_OwnerMismatch ==
    [][\A id \in 1..MaxId, p \in DOMAIN pets :
          (/\ id \in Ids(activities)
           /\ activities[id].pet_id # p
           /\ last'.op \in {"get_activity_for_pet", "update_activity_for_pet",
                            "delete_activity_for_pet"}
           /\ last'.id = id
           /\ last'.pet_id = p)
          => (/\ last'.err = "PetMismatch"
              /\ activities' = activities
              /\ fts' = fts)]_vars

\* C23: delete_activity(id) removes exactly the activity row with that id:
\* afterwards get_activity_by_id(id) fails, every other activity is unchanged
\* and every pet, its weight_kg included, is unchanged.
C23_DeleteRemovesExactlyOne ==
    [][\A id \in 1..MaxId :
          (last'.op = "delete_activity" /\ last'.ok /\ last'.id = id)
          => (/\ ~get_activity_by_id(activities', id).ok
              /\ Ids(activities') = Ids(activities) \ {id}
              /\ \A j \in Ids(activities') : activities'[j] = activities[j]
              /\ pets' = pets)]_vars

\* a stored activity has been deleted while another one is stored
C23_Witness ==
    /\ last.op = "delete_activity"
    /\ last.ok
    /\ last.id = 1
    /\ Ids(activities) = {2}

\* C24: a reader that runs while rebuild_fts_index or repair_fts_index is in
\* progress (a full-text search or a verify) sees the index as it was before
\* the operation or as it is after its commit, never cleared or partly rebuilt.
C24_IndexSeen == IF tx.pc = "stats" THEN tx.work ELSE tx.before

C24_ReadersSeeBeforeOrAfter ==
    ~Idle =>
       /\ fts = C24_IndexSeen
       /\ tx.pc = "stats" => Ids(fts) = Ids(activities)
       /\ (last.op = "fts_search_activities" /\ last.ok)
             => last.result.activities
                = FtsSearch(activities, C24_IndexSeen, sanitize_fts_query(last.query),
                            last.limit)
       /\ (last.op = "verify_fts_integrity" /\ last.ok)
             => last.report = VerifyReport(activities, C24_IndexSeen, last.accessible)

\* a search has found an activity through the committed index while the open
\* rebuild has cleared its own view of the index
C24_Witness ==
    /\ tx.op = "rebuild_fts_index"
    /\ tx.pc \in {"fetch", "insert"}
    /\ tx.work # tx.before
    /\ last.op = "fts_search_activities"
    /\ last.ok
    /\ last.result.activities # <<>>

\* C27: export_activities_to_json exports all activities of the given pet, or
\* of all pets when none is given: the exported array holds every matching
\* activity and its length equals the total_activities field.
C27_ExportsEveryActivity ==
    (last.op = "export_activities_to_json" /\ last.ok) =>
       /\ {last.result.activities[k].id : k \in 1..Len(last.result.activities)}
          = MatchingIds(activities, last.pet_id)
       /\ Len(last.result.activities) = last.result.total_activities

C26_RestoreErrorKeepsData ==
    [][(last'.op = "restore_from_backup" /\ ~last'.ok) =>
          /\ \A i \in Ids(activities) :
                \E j \in Ids(activities') : activities'[j] = activities[i]
          /\ Cardinality(Ids(activities')) >= Cardinality(Ids(activities))
          /\ Cardinality(Ids(fts')) >= Cardinality(Ids(fts))]_vars

\* C28: from_legacy_json migrates a legacy document whose portion block has
\* portionType bowl, bottle or fountain together with an amount and a unit to
\* WaterIntake, with the portionType as its source.
C28_WaterPortionIsWaterIntake ==
    (/\ last.op = "from_legacy_json"
     /\ ~IsTyped(last.doc)
     /\ ~IsMeasurement(last.doc, "weight")
     /\ ~IsMeasurement(last.doc, "height")
     /\ IsWaterIntake(last.doc))
    => (/\ last.data.kind = "water_intake"
        /\ last.data.source = Get(Get(last.doc, "portion"), "portionType").s)

\* C29: get_activities called with a categories filter returns only
\* activities whose category is in the filter, and total_count counts only
\* those activities.
C29_CategoryFilterApplied ==
    (last.op = "get_activities" /\ last.ok /\ last.filters.some) =>
       LET matching == {i \in MatchingIds(activities, last.pet_id) :
                           activities[i].category \in last.filters.categories}
           page == last.result.activities
       IN /\ \A k \in 1..Len(page) : activities[page[k]].category \in last.filters.categories
          /\ page # <<>> => last.result.total_count = Cardinality(matching)

\* C30: every write path derives the same index entry for an activity, so
\* rebuilding an index that has no drift (one entry per activity, each as
\* create_activity wrote it) leaves every entry unchanged.
C30_RebuildKeepsCreatedEntries ==
    [][(/\ tx.op = "rebuild_fts_index"
        /\ tx.pc = "commit"
        /\ tx'.pc = "stats"
        /\ fts = IndexOf(activities))
       => fts' = fts]_vars

====
